---- MODULE Spec2Model ----
(***************************************************************************)
(* create-hono-app: the OpenAPI normalizer (src/parsers/openapi.ts), the   *)
(* three generators (routes, handlers, schema) and the CLI action that     *)
(* sequences them.                                                         *)
(*                                                                         *)
(* JavaScript values are records tagged by a field t; a string is a        *)
(* sequence of one-character strings, so that toUpperCase, toLowerCase and *)
(* the regular-expression replace act on characters.  A JavaScript object  *)
(* is the sequence of its [key, value] entries in Object.entries order.    *)
(***************************************************************************)
EXTENDS Integers, Sequences, FiniteSets, TLC

VARIABLES
    pc,              \* the position of the run
    opts,            \* the command line: the app name, whether --spec is given
    disk,            \* what exists before the run: directories, the spec file
    document,        \* the decoded OpenAPI document
    parsedSpec,      \* the result of parseOpenAPISpec
    endpointsByTag,  \* the groups of the last partition by tag
    dirs,            \* the directories the run created, relative to the target
    files,           \* the files the run wrote: path |-> content
    helpers,         \* the names registered with Handlebars.registerHelper
    log              \* the operations performed so far, in order

vars == <<pc, opts, disk, document, parsedSpec, endpointsByTag, dirs, files,
          helpers, log>>

(***************************************************************************)
(* Bounds of the model.                                                    *)
(***************************************************************************)
\* The number of entries (operations and other path-item members) a
\* document holds, over all of its paths.
MaxEntries == 2

(***************************************************************************)
(* Characters and strings.                                                 *)
(***************************************************************************)
LowerChars == <<"a", "b", "c", "d", "e", "f", "g", "h", "i", "j", "k", "l", "m",
                "n", "o", "p", "q", "r", "s", "t", "u", "v", "w", "x", "y", "z">>

UpperChars == <<"A", "B", "C", "D", "E", "F", "G", "H", "I", "J", "K", "L", "M",
                "N", "O", "P", "Q", "R", "S", "T", "U", "V", "W", "X", "Y", "Z">>

DigitChars == <<"0", "1", "2", "3", "4", "5", "6", "7", "8", "9">>

Range(s) == {s[i] : i \in DOMAIN s}

LowerSet == Range(LowerChars)

UpperSet == Range(UpperChars)

IndexIn(c, s) == CHOOSE i \in DOMAIN s : s[i] = c

\* The upper-case letter of each lower-case letter, and the converse.
UpperOf == [c \in LowerSet |-> UpperChars[IndexIn(c, LowerChars)]]

LowerOf == [c \in UpperSet |-> LowerChars[IndexIn(c, UpperChars)]]

\* String.prototype.toUpperCase, one character.
toUpperCaseChar(c) == IF c \in LowerSet THEN UpperOf[c] ELSE c

\* String.prototype.toLowerCase, one character.
toLowerCaseChar(c) == IF c \in UpperSet THEN LowerOf[c] ELSE c

toUpperCase(str) == [i \in DOMAIN str |-> toUpperCaseChar(str[i])]

toLowerCase(str) == [i \in DOMAIN str |-> toLowerCaseChar(str[i])]

AlphanumericSet == LowerSet \cup UpperSet \cup Range(DigitChars)

\* The character class [a-zA-Z0-9] of generateOperationId's pattern.
IsAlphanumeric(c) == c \in AlphanumericSet

\* path.replace(/[^a-zA-Z0-9]/g, "")
RECURSIVE replaceNonAlphanumeric(_)
replaceNonAlphanumeric(str) ==
    IF str = <<>> THEN <<>>
    ELSE (IF IsAlphanumeric(Head(str)) THEN <<Head(str)>> ELSE <<>>)
             \o replaceNonAlphanumeric(Tail(str))

(***************************************************************************)
(* JavaScript values.                                                      *)
(***************************************************************************)
Undefined == [t |-> "undefined"]

Null == [t |-> "null"]

\* A reference object: "$ref" in x.
RefObject == [t |-> "ref"]

Str(chars) == [t |-> "string", s |-> chars]

Arr(items) == [t |-> "array", items |-> items]

Obj(entries) == [t |-> "object", entries |-> entries]

\* !v
Falsy(v) ==
    \/ v.t \in {"undefined", "null"}
    \/ v.t = "string" /\ v.s = <<>>

\* "$ref" in v
HasRef(v) == v.t = "ref"

\* v[name] for a member an operation object may hold; a string or an
\* object without the member yields undefined.
Member(v, name) ==
    IF v.t = "operation" THEN v[name] ELSE Undefined

\* The result of a call: a value, or a thrown Error.
Ok(v) == [t |-> "ok", v |-> v]

Throw(message) == [t |-> "throw", message |-> message]

DefaultTag == <<"d", "e", "f", "a", "u", "l", "t">>

(***************************************************************************)
(* src/parsers/openapi.ts                                                  *)
(***************************************************************************)
\* One parameter of Array.map's callback in parseParameters.
parseParameter(param) ==
    [name |-> param.name,
     in |-> param.in,
     required |-> (param.required = "true"),
     schema |-> param.schema]

\* parseParameters dropping a referenced parameter instead of throwing.
parseParametersDropsRefs(parameters) ==
    LET inline == SelectSeq(parameters, LAMBDA q : ~HasRef(q))
    IN  Ok([i \in DOMAIN inline |-> parseParameter(inline[i])])

parseParameters(parameters) ==
    IF \E i \in DOMAIN parameters : HasRef(parameters[i])
    THEN Throw("Parameter references not yet supported")
    ELSE Ok([i \in DOMAIN parameters |-> parseParameter(parameters[i])])

\* parseRequestBody without its "$ref" test: the reference object is read as
\* an inline body without members.
parseRequestBodyReadsRef(requestBody) ==
    IF Falsy(requestBody) THEN Undefined
    ELSE IF HasRef(requestBody)
    THEN [t |-> "requestBody", required |-> FALSE, content |-> Obj(<<>>)]
    ELSE [t |-> "requestBody",
          required |-> (requestBody.required = "true"),
          content |-> IF Falsy(requestBody.content) THEN Obj(<<>>)
                      ELSE requestBody.content]

parseRequestBody(requestBody) ==
    IF Falsy(requestBody) \/ HasRef(requestBody)
    THEN Undefined
    ELSE [t |-> "requestBody",
          required |-> (requestBody.required = "true"),
          content |-> IF Falsy(requestBody.content) THEN Obj(<<>>)
                      ELSE requestBody.content]

parseResponses(responses) ==
    IF \E i \in DOMAIN responses : HasRef(responses[i].value)
    THEN Throw("Response references not yet supported")
    ELSE Ok([i \in DOMAIN responses |->
                [statusCode |-> responses[i].key,
                 description |-> responses[i].value.description,
                 content |-> responses[i].value.content]])

\* generateOperationId given the upper-cased method of the descriptor.
generateOperationIdUpper(method, path) ==
    toUpperCase(method) \o replaceNonAlphanumeric(path)

generateOperationId(method, path) == method \o replaceNonAlphanumeric(path)

\* v || default for an optional array member
OrElse(v, default) == IF Falsy(v) THEN default ELSE v.items

\* Object.entries(v || {}) for an optional object member
EntriesOf(v) == IF Falsy(v) THEN <<>> ELSE v.entries

\* The object pushed for one [method, operation] entry of a path item; the
\* members are evaluated in the order written, so a referenced parameter
\* throws before a referenced response does.
parseOperation(path, method, op) ==
    LET declaredId == Member(op, "operationId")
        parameters == parseParameters(OrElse(Member(op, "parameters"), <<>>))
        responses  == parseResponses(EntriesOf(Member(op, "responses")))
    IN  IF parameters.t = "throw" THEN parameters
        ELSE IF responses.t = "throw" THEN responses
        ELSE Ok([path |-> path,
                 method |-> toUpperCase(method),
                 operationId |-> IF Falsy(declaredId)
                                 THEN generateOperationId(method, path)
                                 ELSE declaredId.s,
                 tags |-> OrElse(Member(op, "tags"), <<DefaultTag>>),
                 parameters |-> parameters.v,
                 requestBody |-> parseRequestBody(Member(op, "requestBody")),
                 responses |-> responses.v])

\* The guard of the inner forEach: the entries that are skipped.
SkipsEntry(method, operation) ==
    method = <<"p", "a", "r", "a", "m", "e", "t", "e", "r", "s">> \/ Falsy(operation)

\* The inner forEach over Object.entries(pathItem), pushing onto endpoints.
RECURSIVE parsePathItem(_, _, _)
parsePathItem(path, entries, endpoints) ==
    IF entries = <<>> THEN Ok(endpoints)
    ELSE LET e == Head(entries)
         IN  IF SkipsEntry(e.key, e.value)
             THEN parsePathItem(path, Tail(entries), endpoints)
             ELSE LET r == parseOperation(path, e.key, e.value)
                  IN  IF r.t = "throw" THEN r
                      ELSE parsePathItem(path, Tail(entries), Append(endpoints, r.v))

\* The outer forEach over Object.entries(spec.paths || {}).
RECURSIVE parsePaths(_, _)
parsePaths(paths, endpoints) ==
    IF paths = <<>> THEN Ok(endpoints)
    ELSE LET p == Head(paths)
         IN  IF Falsy(p.value) THEN parsePaths(Tail(paths), endpoints)
             ELSE LET r == parsePathItem(p.key, p.value.entries, endpoints)
                  IN  IF r.t = "throw" THEN r
                      ELSE parsePaths(Tail(paths), r.v)

parseEndpoints(spec) ==
    parsePaths(EntriesOf(spec.paths), <<>>)

\* The filter of parseSchemas: "properties" in schema.
IsObjectSchema(schema) == schema.t = "object" /\ schema.hasProperties

parseSchemas(spec) ==
    LET components == EntriesOf(spec.components)
        kept == SelectSeq(components, LAMBDA c : IsObjectSchema(c.value))
    IN  [i \in DOMAIN kept |->
            [name |-> kept[i].key,
             properties |-> kept[i].value.properties,
             required |-> kept[i].value.required]]

parseOpenAPISpec(spec) ==
    LET endpoints == parseEndpoints(spec)
    IN  IF endpoints.t = "throw" THEN endpoints
        ELSE Ok([t |-> "ir",
                 endpoints |-> endpoints.v,
                 schemas |-> parseSchemas(spec),
                 info |-> spec.info])

\* const tag = endpoint.tags[0] || "default"
TagOf(endpoint) ==
    IF endpoint.tags = <<>> \/ endpoint.tags[1] = <<>>
    THEN DefaultTag
    ELSE endpoint.tags[1]

\* The reduce step assigning a fresh one-element list instead of pushing.
PushByTagOverwrites(acc, endpoint) ==
    LET tag == TagOf(endpoint)
    IN  IF \E i \in DOMAIN acc : acc[i].key = tag
        THEN [i \in DOMAIN acc |->
                 IF acc[i].key = tag
                 THEN [key |-> tag, value |-> <<endpoint>>]
                 ELSE acc[i]]
        ELSE Append(acc, [key |-> tag, value |-> <<endpoint>>])

\* One step of the reduce: acc[tag] is created empty if missing, the endpoint
\* is pushed.  acc is the sequence of [key, value] entries of the object.
PushByTag(acc, endpoint) ==
    LET tag == TagOf(endpoint)
    IN  IF \E i \in DOMAIN acc : acc[i].key = tag
        THEN [i \in DOMAIN acc |->
                 IF acc[i].key = tag
                 THEN [key |-> tag, value |-> Append(acc[i].value, endpoint)]
                 ELSE acc[i]]
        ELSE Append(acc, [key |-> tag, value |-> <<endpoint>>])

RECURSIVE reduceByTag(_, _)
reduceByTag(endpoints, acc) ==
    IF endpoints = <<>> THEN acc
    ELSE reduceByTag(Tail(endpoints), PushByTag(acc, Head(endpoints)))

getEndpointsByTag(endpoints) == reduceByTag(endpoints, <<>>)

(***************************************************************************)
(* Handlebars: the registry of helpers and the render of a template.       *)
(***************************************************************************)
Event(op, template, tag) == [op |-> op, template |-> template, tag |-> tag]

NoTag == <<>>

\* template(context): the render throws when the template invokes a helper
\* that is not registered.
Render(invoked, registry, content) ==
    IF invoked \subseteq registry THEN Ok(content)
    ELSE Throw("Missing helper")

\* writeFileSync(path, content)
WriteFile(fs, path, content) ==
    [q \in DOMAIN fs \cup {path} |-> IF q = path THEN content ELSE fs[q]]

OperationIds(endpoints) == [i \in DOMAIN endpoints |-> endpoints[i].operationId]

(***************************************************************************)
(* src/generators/routes.ts                                                *)
(***************************************************************************)
\* registerHandlebarsHelpers
RouteHelpers ==
    {"camelCase", "pascalCase", "capitalize", "lowercase", "zodType",
     "statusCodeConstant"}

\* endpoint.parameters.filter((p) => p.in === where)
ParamsIn(endpoint, where) == SelectSeq(endpoint.parameters, LAMBDA q : q.in = where)

\* The helper registered as "zodType".  The callback is an anonymous function
\* and the module declares no binding named zodType, so the array case,
\* which evaluates the identifier zodType, raises a ReferenceError before it
\* looks at schema.items.  A missing schema is the value undefined.
zodType(schema) ==
    IF "type" \notin DOMAIN schema
    THEN Ok(<<"z.unknown()">>)
    ELSE CASE schema.type = "string"  -> Ok(<<"z.string()">>)
           [] schema.type = "number"  -> Ok(<<"z.number()">>)
           [] schema.type = "integer" -> Ok(<<"z.number().int()">>)
           [] schema.type = "boolean" -> Ok(<<"z.boolean()">>)
           [] schema.type = "array"   -> Throw("zodType is not defined")
           [] OTHER                   -> Ok(<<"z.unknown()">>)

\* The schemas routeTemplate hands to zodType for one endpoint: those of the
\* path parameters, then those of the query parameters.
ZodTypeArguments(endpoint) ==
    LET params == ParamsIn(endpoint, "path") \o ParamsIn(endpoint, "query")
    IN  [i \in DOMAIN params |-> params[i].schema]

\* {{zodType schema}} of every path and query parameter of the endpoints.
RouteValidators(endpoints) ==
    [i \in DOMAIN endpoints |->
        [j \in DOMAIN ZodTypeArguments(endpoints[i]) |->
            zodType(ZodTypeArguments(endpoints[i])[j])]]

\* A helper called by the render of routeTemplate throws.
RouteHelperThrows(endpoints) ==
    \E i \in DOMAIN endpoints :
        \E j \in DOMAIN RouteValidators(endpoints)[i] :
            RouteValidators(endpoints)[i][j].t = "throw"

\* The helpers routeTemplate invokes for one endpoint: a block under #if or
\* #each is rendered only for a non-empty array or a defined value.
RouteEndpointInvokes(endpoint) ==
    {"camelCase", "lowercase", "pascalCase"}
      \cup (IF endpoint.parameters # <<>>
              /\ (ParamsIn(endpoint, "path") # <<>> \/ ParamsIn(endpoint, "query") # <<>>)
            THEN {"zodType"} ELSE {})
      \cup (IF endpoint.parameters # <<>> /\ endpoint.requestBody.t # "undefined"
            THEN {"getSchemaName"} ELSE {})
      \cup (IF endpoint.responses # <<>> THEN {"statusCodeConstant"} ELSE {})
      \cup (IF \E i \in DOMAIN endpoint.responses :
                  endpoint.responses[i].content.t # "undefined"
            THEN {"getResponseSchema"} ELSE {})

RouteTemplateInvokes(endpoints) ==
    {"capitalize"} \cup UNION {RouteEndpointInvokes(endpoints[i]) : i \in DOMAIN endpoints}

RoutesDir == "src/routes"

RoutesFile(tag) ==
    [dir |-> RoutesDir,
     name |-> toLowerCase(tag) \o <<".", "r", "o", "u", "t", "e", "s", ".", "t", "s">>]

\* The body of generateRoutes' loop for one [tag, tagEndpoints]; the render
\* throws on a missing helper and on a helper that throws.
RoutesStep(st, group) ==
    LET ensured  == [st EXCEPT !.dirs = @ \cup {"src", RoutesDir}]
        rendered == IF RouteHelperThrows(group.value)
                    THEN Throw("zodType is not defined")
                    ELSE Render(RouteTemplateInvokes(group.value), st.registry,
                                [template |-> "routes", tag |-> group.key,
                                 operationIds |-> OperationIds(group.value),
                                 validators |-> RouteValidators(group.value)])
        tried    == [ensured EXCEPT !.log = Append(@, Event("render", "routes", group.key))]
    IN  IF rendered.t = "throw" THEN [tried EXCEPT !.threw = TRUE]
        ELSE [tried EXCEPT
                !.files = WriteFile(@, RoutesFile(group.key), rendered.v),
                !.log = Append(@, Event("write", "routes", group.key))]

\* The for-of loop of generateRoutes over Object.entries(endpointsByTag); a
\* throw ends the loop and the function.
RECURSIVE RoutesLoop(_, _)
RoutesLoop(groups, st) ==
    IF groups = <<>> \/ st.threw THEN st
    ELSE RoutesLoop(Tail(groups), RoutesStep(st, Head(groups)))

\* generateRoutes(targetDir, endpoints) from the state st.
generateRoutes(st, endpoints) ==
    LET groups == getEndpointsByTag(endpoints)
    IN  RoutesLoop(groups,
            [st EXCEPT !.groups = groups,
                       !.registry = @ \cup RouteHelpers,
                       !.log = @ \o <<Event("partition", "routes", NoTag),
                                      Event("register", "routes", NoTag)>>])

(***************************************************************************)
(* src/generators/handlers.ts                                              *)
(***************************************************************************)
HandlerHelpers == {"eq"}

\* The helpers handlerTemplate invokes: {{#each routes}} has nothing to
\* iterate, each endpoint invokes camelCase, pascalCase and eq.
HandlerTemplateInvokes(endpoints) ==
    IF endpoints = <<>> THEN {} ELSE {"camelCase", "pascalCase", "eq"}

HandlersFile(tag) ==
    [dir |-> RoutesDir,
     name |-> toLowerCase(tag)
                \o <<".", "h", "a", "n", "d", "l", "e", "r", "s", ".", "t", "s">>]

\* The body of generateHandlers' loop for one [tag, tagEndpoints].
HandlersStep(st, group) ==
    LET ensured  == [st EXCEPT !.dirs = @ \cup {"src", RoutesDir}]
        rendered == Render(HandlerTemplateInvokes(group.value), st.registry,
                           [template |-> "handlers", tag |-> group.key,
                            operationIds |-> OperationIds(group.value)])
        tried    == [ensured EXCEPT !.log = Append(@, Event("render", "handlers", group.key))]
    IN  IF rendered.t = "throw" THEN [tried EXCEPT !.threw = TRUE]
        ELSE [tried EXCEPT
                !.files = WriteFile(@, HandlersFile(group.key), rendered.v),
                !.log = Append(@, Event("write", "handlers", group.key))]

\* The loop of a generateHandlers that registers its helper inside the loop,
\* before the render of each tag.
RECURSIVE HandlersLoopRegisters(_, _)
HandlersLoopRegisters(groups, st) ==
    IF groups = <<>> \/ st.threw THEN st
    ELSE HandlersLoopRegisters(Tail(groups),
             HandlersStep([st EXCEPT
                             !.registry = @ \cup HandlerHelpers,
                             !.log = Append(@, Event("register", "handlers", NoTag))],
                          Head(groups)))

\* The for-of loop of generateHandlers over Object.entries(endpointsByTag);
\* a throw ends the loop and the function.
RECURSIVE HandlersLoop(_, _)
HandlersLoop(groups, st) ==
    IF groups = <<>> \/ st.threw THEN st
    ELSE HandlersLoop(Tail(groups), HandlersStep(st, Head(groups)))

\* generateHandlers(targetDir, endpoints) from the state st.
generateHandlers(st, endpoints) ==
    LET groups == getEndpointsByTag(endpoints)
    IN  HandlersLoop(groups,
            [st EXCEPT !.groups = groups,
                       !.registry = @ \cup HandlerHelpers,
                       !.log = @ \o <<Event("partition", "handlers", NoTag),
                                      Event("register", "handlers", NoTag)>>])

(***************************************************************************)
(* src/generators/schema.ts                                                *)
(***************************************************************************)
SchemaHelpers == {"drizzleType", "snakeCase"}

\* A generateSchema that renders whatever the number of schemas.
AlwaysGeneratesSchema(schemas) == FALSE

\* if (schemas.length === 0) return;
SkipsSchema(schemas) == Len(schemas) = 0

\* The helpers schemaTemplate invokes.
SchemaTemplateInvokes(schemas) ==
    (IF schemas = <<>> THEN {} ELSE {"camelCase", "snakeCase", "pascalCase"})
      \cup (IF \E i \in DOMAIN schemas : schemas[i].properties.entries # <<>>
            THEN {"drizzleType"} ELSE {})

SchemaDir == "src/db"

SchemaFile == [dir |-> SchemaDir, name |-> <<"s", "c", "h", "e", "m", "a", ".", "t", "s">>]

SchemaNames(schemas) == [i \in DOMAIN schemas |-> schemas[i].name]

\* generateSchema(targetDir, schemas) from the state st; writeFileSync throws
\* when the directory of the file does not exist.
generateSchema(st, schemas) ==
    IF SkipsSchema(schemas) THEN st
    ELSE LET registered == [st EXCEPT !.registry = @ \cup SchemaHelpers,
                                      !.log = Append(@, Event("register", "schema", NoTag))]
             rendered == Render(SchemaTemplateInvokes(schemas), registered.registry,
                                [template |-> "schema", tag |-> NoTag,
                                 operationIds |-> SchemaNames(schemas)])
             tried == [registered EXCEPT !.log = Append(@, Event("render", "schema", NoTag))]
         IN  IF rendered.t = "throw" \/ SchemaDir \notin st.dirs
             THEN [tried EXCEPT !.threw = TRUE]
             ELSE [tried EXCEPT
                     !.files = WriteFile(@, SchemaFile, rendered.v),
                     !.log = Append(@, Event("write", "schema", NoTag))]

(***************************************************************************)
(* bin/cli.ts: the action of the command.                                  *)
(***************************************************************************)
\* /^[a-zA-Z0-9-_]+$/
IsAppNameChar(c) == IsAlphanumeric(c) \/ c \in {"-", "_"}

validateAppName(appName) ==
    IF appName = <<>> \/ \A i \in DOMAIN appName : appName[i] = " "
    THEN Throw("App name cannot be empty")
    ELSE IF \E i \in DOMAIN appName : ~IsAppNameChar(appName[i])
    THEN Throw("App name can only contain letters, numbers, hyphens, and underscores")
    ELSE Ok(appName)

\* A run that does not look at the target before it starts.
TargetIgnored(appName, existing) == FALSE

\* existsSync(target)
TargetExists(appName, existing) == appName \in existing

\* templateData.endpoints !== undefined fails: the member is missing.
NoEndpointsFound(templateData) == "endpoints" \notin DOMAIN templateData

\* The generators in the order of build's three awaits, the schema first.
AfterStepSchemaFirst(step) ==
    CASE step = "scaffold" -> "schema"
      [] step = "schema"   -> "routes"
      [] step = "routes"   -> "handlers"
      [] step = "handlers" -> "done"

\* The position that follows a completed step: the walk of the template
\* tree, then generateRoutes, generateHandlers, generateSchema, then success.
AfterStep(step) ==
    CASE step = "scaffold" -> "routes"
      [] step = "routes"   -> "handlers"
      [] step = "handlers" -> "schema"
      [] step = "schema"   -> "done"

(***************************************************************************)
(* The documents the model reads.                                          *)
(***************************************************************************)
GET == <<"g", "e", "t">>

POST == <<"p", "o", "s", "t">>

PARAMETERS == <<"p", "a", "r", "a", "m", "e", "t", "e", "r", "s">>

SUMMARY == <<"s", "u", "m", "m", "a", "r", "y">>

HttpMethods == {GET, POST}

PathPets == <<"/", "p", "e", "t", "s">>

PathPetById == <<"/", "p", "e", "t", "s", "/", "{", "i", "d", "}">>

PathNames == {PathPets, PathPetById}

TagPets == <<"P", "e", "t", "s">>

TagPetsLower == <<"p", "e", "t", "s">>

IdParameter ==
    [t |-> "parameter", name |-> <<"i", "d">>, in |-> "path", required |-> "true",
     schema |-> [type |-> "string"]]

StringSchema == [type |-> "string"]

ArraySchema(items) == [type |-> "array", items |-> items]

\* A query parameter whose schema is an array of strings.
TagsParameter ==
    [t |-> "parameter", name |-> <<"t", "a", "g", "s">>, in |-> "query",
     required |-> "absent", schema |-> ArraySchema(StringSchema)]

\* A query parameter whose schema is an array of arrays of strings.
RowsParameter ==
    [t |-> "parameter", name |-> <<"r", "o", "w", "s">>, in |-> "query",
     required |-> "absent", schema |-> ArraySchema(ArraySchema(StringSchema))]

\* A header parameter: neither a path nor a query parameter.
HeaderParameter ==
    [t |-> "parameter", name |-> <<"e", "t", "a", "g">>, in |-> "header",
     required |-> "absent", schema |-> ArraySchema(StringSchema)]

InlineRequestBody ==
    [t |-> "requestBody", required |-> "absent", content |-> Obj(<<>>)]

PlainResponse ==
    [t |-> "response", description |-> <<"o", "k">>, content |-> Undefined]

ContentResponse ==
    [t |-> "response", description |-> <<"o", "k">>, content |-> Obj(<<>>)]

Status200 == <<"2", "0", "0">>

Operation(operationId, tags, parameters, requestBody, responses) ==
    [t |-> "operation", operationId |-> operationId, tags |-> tags,
     parameters |-> parameters, requestBody |-> requestBody,
     responses |-> responses]

\* An operation that declares none of the optional members.
PlainOperation == Operation(Undefined, Undefined, Undefined, Undefined, Undefined)

\* An operation that declares every member inline.
FullOperation ==
    Operation(Str(<<"l", "i", "s", "t">>), Arr(<<TagPets>>), Arr(<<IdParameter>>),
              InlineRequestBody,
              Obj(<<[key |-> Status200, value |-> ContentResponse]>>))

TagChoices ==
    {Arr(<<>>), Arr(<< <<>> >>), Arr(<<TagPets>>), Arr(<<TagPetsLower, TagPets>>)}

ParameterChoices == {Arr(<<IdParameter>>), Arr(<<IdParameter, RefObject>>)}

RequestBodyChoices == {RefObject, InlineRequestBody}

ResponseChoices ==
    {Obj(<<[key |-> Status200, value |-> PlainResponse]>>),
     Obj(<<[key |-> Status200, value |-> RefObject]>>)}

\* The operations of the normalizer's documents: the plain operation with at
\* most one member declared, the operation with a referenced request body
\* beside a referenced parameter, and the full operation.
NormalizeOperations ==
    {PlainOperation, FullOperation}
      \cup {[PlainOperation EXCEPT !.operationId = Str(<<"l", "i", "s", "t">>)]}
      \cup {[PlainOperation EXCEPT !.tags = tg] : tg \in TagChoices}
      \cup {[PlainOperation EXCEPT !.parameters = ps] : ps \in ParameterChoices}
      \cup {[PlainOperation EXCEPT !.requestBody = rb] : rb \in RequestBodyChoices}
      \cup {[PlainOperation EXCEPT !.responses = rs] : rs \in ResponseChoices}
      \cup {[PlainOperation EXCEPT !.requestBody = RefObject,
                                   !.parameters = Arr(<<RefObject>>)]}

\* The [key, value] entries a path item may hold: an operation or null under
\* an HTTP method, the path-level parameters, and the path-level summary.
EntryChoices(operations) ==
    {[key |-> m, value |-> v] : m \in HttpMethods, v \in operations \cup {Null}}
      \cup {[key |-> PARAMETERS, value |-> Arr(<<RefObject>>)]}
      \cup {[key |-> SUMMARY, value |-> Str(<<"P", "e", "t", "s">>)]}

DistinctKeys(entries) ==
    \A i, j \in DOMAIN entries : i # j => entries[i].key # entries[j].key

\* The entries of a path item of exactly n entries.
EntrySeqs(n, operations) ==
    {es \in [1..n -> EntryChoices(operations)] : DistinctKeys(es)}

\* The paths a document declares, in document order.
PathOrders ==
    {<<>>} \cup {<<p>> : p \in PathNames}
           \cup {pq \in PathNames \X PathNames : pq[1] # pq[2]}

PathsObject(names, items) ==
    Obj([i \in DOMAIN names |-> [key |-> names[i], value |-> items[i]]])

IdProperty == [key |-> <<"i", "d">>, value |-> [type |-> "integer"]]

ObjectSchema(name) ==
    [key |-> name,
     value |-> [t |-> "object", hasProperties |-> TRUE,
                properties |-> Obj(<<IdProperty>>), required |-> <<>>]]

ScalarSchema(name) ==
    [key |-> name, value |-> [t |-> "object", hasProperties |-> FALSE]]

SchemaPet == <<"P", "e", "t">>

SchemaOwner == <<"O", "w", "n", "e", "r">>

SchemaId == <<"I", "d">>

Info == [title |-> <<"P", "e", "t", "s">>, version |-> <<"1">>, description |-> Undefined]

Document(paths, components) ==
    [t |-> "document", paths |-> paths, components |-> components, info |-> Info]

\* The decoded document is any document of at most two paths and at most
\* MaxEntries entries over the given operations: paths may be missing, and a
\* path item may be null.
ReadsDocument(operations, componentsChoices) ==
    \/ \E cs \in componentsChoices : document' = Document(Undefined, cs)
    \/ \E names \in PathOrders, cs \in componentsChoices, n1 \in 0..MaxEntries :
         \E n2 \in 0..(MaxEntries - n1) :
            /\ Len(names) < 1 => n1 = 0
            /\ Len(names) < 2 => n2 = 0
            /\ \E es1 \in EntrySeqs(n1, operations), es2 \in EntrySeqs(n2, operations),
                  null1 \in BOOLEAN, null2 \in BOOLEAN :
                  /\ null1 => n1 = 0 /\ Len(names) >= 1
                  /\ null2 => n2 = 0 /\ Len(names) = 2
                  /\ document' =
                        Document(PathsObject(names,
                                     SubSeq(<<IF null1 THEN Null ELSE Obj(es1),
                                              IF null2 THEN Null ELSE Obj(es2)>>,
                                            1, Len(names))),
                                 cs)

NormalizeComponents == {Obj(<<ScalarSchema(SchemaId), ObjectSchema(SchemaPet)>>)}

(***************************************************************************)
(* The normalizer on its own: a document is loaded, normalized, and the    *)
(* endpoints of the result are partitioned by tag.                         *)
(***************************************************************************)
NoGroups == <<>>

InitNormalize ==
    /\ pc = "load"
    /\ opts = [appName |-> <<"a", "p", "p">>, spec |-> TRUE]
    /\ disk = [dirs |-> {}, specFile |-> TRUE]
    /\ document = Undefined
    /\ parsedSpec = Undefined
    /\ endpointsByTag = NoGroups
    /\ dirs = {}
    /\ files = <<>>
    /\ helpers = {}
    /\ log = <<>>

\* loadOpenAPISpec: the decoded document.
LoadSpec ==
    /\ pc = "load"
    /\ ReadsDocument(NormalizeOperations, NormalizeComponents)
    /\ pc' = "loaded"
    /\ UNCHANGED <<opts, disk, parsedSpec, endpointsByTag, dirs, files, helpers, log>>

\* parseOpenAPISpec on the loaded document: the IR, or the thrown error.
Normalize ==
    /\ pc = "loaded"
    /\ parsedSpec' = parseOpenAPISpec(document)
    /\ pc' = IF parsedSpec'.t = "throw" THEN "threw" ELSE "normalized"
    /\ UNCHANGED <<opts, disk, document, endpointsByTag, dirs, files, helpers, log>>

\* getEndpointsByTag on the endpoints of the IR.
Partition ==
    /\ pc = "normalized"
    /\ endpointsByTag' = getEndpointsByTag(parsedSpec.v.endpoints)
    /\ pc' = "partitioned"
    /\ UNCHANGED <<opts, disk, document, parsedSpec, dirs, files, helpers, log>>

NextNormalize == LoadSpec \/ Normalize \/ Partition

SpecNormalize == InitNormalize /\ [][NextNormalize]_vars

(***************************************************************************)
(* One run of the command: create-hono-app <app-name> --spec <path>.       *)
(***************************************************************************)
AppNames == {<<>>, <<" ">>, <<"a", "p", "p">>, <<"m", "y", " ", "a", "p", "p">>}

\* The operations of the documents a run reads.
RunOperations ==
    {PlainOperation, FullOperation,
     [PlainOperation EXCEPT !.tags = Arr(<<TagPets>>)],
     [PlainOperation EXCEPT !.tags = Arr(<<TagPetsLower, TagPets>>)],
     [PlainOperation EXCEPT !.parameters = Arr(<<IdParameter, RefObject>>)],
     [PlainOperation EXCEPT
        !.responses = Obj(<<[key |-> Status200, value |-> RefObject]>>)],
     [PlainOperation EXCEPT !.parameters = Arr(<<IdParameter, HeaderParameter>>)],
     [PlainOperation EXCEPT
        !.parameters = Arr(<<IdParameter, TagsParameter, RowsParameter>>)]}

RunComponents ==
    {Undefined,
     Obj(<<ObjectSchema(SchemaPet)>>),
     Obj(<<ObjectSchema(SchemaPet), ScalarSchema(SchemaId), ObjectSchema(SchemaOwner)>>)}

TargetRoot == "."

\* What templates/app holds, as walk finds it: nothing, or the directories
\* src and src/db and one file.
TemplateTrees ==
    {[dirs |-> {}, files |-> {}],
     [dirs |-> {"src", SchemaDir},
      files |-> {[dir |-> TargetRoot,
                  name |-> <<"p", "a", "c", "k", "a", "g", "e", ".", "j", "s", "o", "n">>]}]}

NoFiles == <<>>

Init ==
    /\ pc = "start"
    /\ opts \in [appName : AppNames, spec : BOOLEAN]
    /\ disk \in [dirs : {{}, {opts.appName}}, specFile : BOOLEAN]
    /\ document = Undefined
    /\ parsedSpec = Undefined
    /\ endpointsByTag = NoGroups
    /\ dirs = {}
    /\ files = NoFiles
    /\ helpers = {}
    /\ log = <<>>

\* validateAppName, the test of the target, the tests of opts.spec.
Validate ==
    /\ pc = "start"
    /\ pc' = IF validateAppName(opts.appName).t = "throw" THEN "failed"
             ELSE IF TargetExists(opts.appName, disk.dirs) THEN "failed"
             ELSE IF ~opts.spec THEN "done"
             ELSE IF ~disk.specFile THEN "failed"
             ELSE "parse"
    /\ UNCHANGED <<opts, disk, document, parsedSpec, endpointsByTag, dirs, files,
                   helpers, log>>

\* parsedSpec = parseOpenAPISpec(opts.spec): the file is decoded and the
\* document normalized; a throw leaves parsedSpec unassigned.
ParseSpec ==
    /\ pc = "parse"
    /\ ReadsDocument(RunOperations, RunComponents)
    /\ LET r == parseOpenAPISpec(document')
       IN  /\ parsedSpec' = IF r.t = "throw" THEN parsedSpec ELSE r
           /\ pc' = IF r.t = "throw" THEN "failed" ELSE "scaffold"
    /\ log' = log \o <<Event("decode", "", NoTag), Event("normalize", "", NoTag)>>
    /\ UNCHANGED <<opts, disk, endpointsByTag, dirs, files, helpers>>

\* parseOpenAPISpec when the file is not valid JSON or YAML: the decoder
\* throws.
DecodeFails ==
    /\ pc = "parse"
    /\ pc' = "failed"
    /\ log' = Append(log, Event("decode", "", NoTag))
    /\ UNCHANGED <<opts, disk, document, parsedSpec, endpointsByTag, dirs, files,
                   helpers>>

\* ensureDirSync(target), then walk(tplRoot, target, templateData) unless
\* templateData has no endpoints member.
Scaffold ==
    /\ pc = "scaffold"
    /\ IF NoEndpointsFound(parsedSpec.v)
       THEN /\ dirs' = dirs \cup {TargetRoot}
            /\ pc' = "failed"
            /\ UNCHANGED <<files, log>>
       ELSE \E tree \in TemplateTrees :
              /\ dirs' = dirs \cup {TargetRoot} \cup tree.dirs
              /\ files' = [q \in DOMAIN files \cup tree.files |->
                              IF q \in tree.files
                              THEN [template |-> "app", tag |-> NoTag,
                                    operationIds |-> <<>>]
                              ELSE files[q]]
              /\ log' = Append(log, Event("walk", "", NoTag))
              /\ pc' = AfterStep("scaffold")
    /\ UNCHANGED <<opts, disk, document, parsedSpec, endpointsByTag, helpers>>

\* The state a generator starts from.
Current ==
    [dirs |-> dirs, files |-> files, log |-> log, registry |-> helpers,
     groups |-> endpointsByTag, threw |-> FALSE]

\* The state a generator leaves; a throw fails the run.
Leaves(st, step) ==
    /\ dirs' = st.dirs
    /\ files' = st.files
    /\ log' = st.log
    /\ helpers' = st.registry
    /\ endpointsByTag' = st.groups
    /\ pc' = IF st.threw THEN "failed" ELSE AfterStep(step)
    /\ UNCHANGED <<opts, disk, document, parsedSpec>>

\* await generateRoutes(target, parsedSpec.endpoints)
GenerateRoutes ==
    /\ pc = "routes"
    /\ Leaves(generateRoutes(Current, parsedSpec.v.endpoints), "routes")

\* await generateHandlers(target, parsedSpec.endpoints)
GenerateHandlers ==
    /\ pc = "handlers"
    /\ Leaves(generateHandlers(Current, parsedSpec.v.endpoints), "handlers")

\* await generateSchema(target, parsedSpec.schemas, opts.database)
GenerateSchema ==
    /\ pc = "schema"
    /\ Leaves(generateSchema(Current, parsedSpec.v.schemas), "schema")

Next ==
    \/ Validate
    \/ ParseSpec
    \/ DecodeFails
    \/ Scaffold
    \/ GenerateRoutes
    \/ GenerateHandlers
    \/ GenerateSchema

Spec == Init /\ [][Next]_vars

(***************************************************************************)
(* What a document declares, read off the document itself.                 *)
(***************************************************************************)
\* The [path, method, operation] triples of one path item: the entries under
\* an HTTP method that hold an operation object.
DeclaredIn(path, item) ==
    IF item.t # "object" THEN <<>>
    ELSE LET ops == SelectSeq(item.entries,
                       LAMBDA e : e.key \in HttpMethods /\ e.value.t = "operation")
         IN  [i \in DOMAIN ops |->
                 [path |-> path, method |-> ops[i].key, operation |-> ops[i].value]]

RECURSIVE DeclaredInPaths(_)
DeclaredInPaths(paths) ==
    IF paths = <<>> THEN <<>>
    ELSE DeclaredIn(Head(paths).key, Head(paths).value) \o DeclaredInPaths(Tail(paths))

\* The HTTP operations a document declares, in document order.
DeclaredOperations(doc) ==
    IF doc.paths.t # "object" THEN <<>> ELSE DeclaredInPaths(doc.paths.entries)

ReferencedParameter(op) ==
    op.parameters.t = "array"
      /\ \E i \in DOMAIN op.parameters.items : op.parameters.items[i].t = "ref"

ReferencedResponse(op) ==
    op.responses.t = "object"
      /\ \E i \in DOMAIN op.responses.entries : op.responses.entries[i].value.t = "ref"

\* Some operation of the document has a referenced parameter or response.
HasUnsupportedRef(doc) ==
    LET declared == DeclaredOperations(doc)
    IN  \E i \in DOMAIN declared :
           ReferencedParameter(declared[i].operation)
             \/ ReferencedResponse(declared[i].operation)

Loaded == document.t = "document"

Normalized == parsedSpec.t = "ok"

\* The descriptors produced for the operation declared at (path, method).
DescriptorsOf(d) ==
    {i \in DOMAIN parsedSpec.v.endpoints :
        /\ parsedSpec.v.endpoints[i].path = d.path
        /\ parsedSpec.v.endpoints[i].method = toUpperCase(d.method)}

(***************************************************************************)
(* Claims about the normalizer, checked under SpecNormalize.               *)
(***************************************************************************)
\* C4 (as claimed): for a document with at least one operation and no
\* referenced parameter or response, the endpoint list holds exactly one
\* descriptor per declared HTTP operation and no other, in document order.
C4_OneDescriptorPerOperation ==
    (Loaded /\ pc \in {"normalized", "threw", "partitioned"}
       /\ Len(DeclaredOperations(document)) >= 1 /\ ~HasUnsupportedRef(document))
    => /\ Normalized
       /\ Len(parsedSpec.v.endpoints) = Len(DeclaredOperations(document))
       /\ \A i \in DOMAIN DeclaredOperations(document) :
             /\ parsedSpec.v.endpoints[i].path = DeclaredOperations(document)[i].path
             /\ parsedSpec.v.endpoints[i].method
                   = toUpperCase(DeclaredOperations(document)[i].method)

\* The group key the partition is claimed to use (C5 as claimed): tags[0],
\* or "default" when there are no tags.
FirstTag(endpoint) ==
    IF endpoint.tags = <<>> THEN DefaultTag ELSE endpoint.tags[1]

\* The group key of the amended C5: as FirstTag, and "default" also when
\* tags[0] is the empty string.
FirstTagOrDefault(endpoint) ==
    IF FirstTag(endpoint) = <<>> THEN DefaultTag ELSE FirstTag(endpoint)

\* The group key under either reading.
KeyOf(endpoint, emptyIsDefault) ==
    IF emptyIsDefault THEN FirstTagOrDefault(endpoint) ELSE FirstTag(endpoint)

\* Every endpoint is in exactly the group of its key, nothing is dropped or
\* duplicated, and each group keeps the input order.
PartitionedBy(emptyIsDefault, endpoints, groups) ==
    /\ \A g, h \in DOMAIN groups : g # h => groups[g].key # groups[h].key
    /\ \A i \in DOMAIN endpoints :
          \E g \in DOMAIN groups : groups[g].key = KeyOf(endpoints[i], emptyIsDefault)
    /\ \A g \in DOMAIN groups :
          /\ groups[g].value # <<>>
          /\ groups[g].value
                = SelectSeq(endpoints,
                            LAMBDA e : KeyOf(e, emptyIsDefault) = groups[g].key)

\* C5 (as claimed): partitioning puts every endpoint into exactly the group
\* keyed by its tags[0] ("default" without tags), in input order.
C5_GroupedByFirstTag ==
    pc = "partitioned"
    => PartitionedBy(FALSE, parsedSpec.v.endpoints, endpointsByTag)

\* C5 (amended): partitioning puts every endpoint into exactly one group,
\* keyed by its tags[0], or by "default" when it has no tags or tags[0] is
\* the empty string; nothing is dropped or duplicated and each group keeps
\* the input order.
C5_GroupedByFirstTagOrDefault ==
    pc = "partitioned"
    => PartitionedBy(TRUE, parsedSpec.v.endpoints, endpointsByTag)

\* Two endpoints were partitioned into one group.
C5_Witness ==
    /\ pc = "partitioned"
    /\ \E g \in DOMAIN endpointsByTag :
          /\ Len(endpointsByTag[g].value) = 2
          /\ endpointsByTag[g].key = TagPets

\* The operations of the document that declare no operationId.
WithoutOperationId(doc) ==
    SelectSeq(DeclaredOperations(doc), LAMBDA d : d.operation.operationId.t = "undefined")

\* C9 (as claimed): without a declared operationId the descriptor's
\* operationId is the upper-cased method followed by the path stripped of
\* its non-alphanumeric characters.
C9_OperationIdUpperCased ==
    Normalized
    => \A k \in DOMAIN WithoutOperationId(document) :
          LET d == WithoutOperationId(document)[k]
          IN  \E i \in DescriptorsOf(d) :
                 parsedSpec.v.endpoints[i].operationId
                   = toUpperCase(d.method) \o SelectSeq(d.path, IsAlphanumeric)

\* C9 (amended): without a declared operationId the descriptor's operationId
\* is the method as the document writes it (not upper-cased) followed by the
\* path stripped of its non-alphanumeric characters, while the descriptor's
\* method field is the upper-cased method.
C9_OperationIdAsWritten ==
    Normalized
    => LET undeclared == WithoutOperationId(document)
       IN  \A k \in DOMAIN undeclared :
          LET d == undeclared[k]
          IN  /\ DescriptorsOf(d) # {}
              /\ \A i \in DescriptorsOf(d) :
                    parsedSpec.v.endpoints[i].operationId
                      = d.method \o SelectSeq(d.path, IsAlphanumeric)

\* GET /pets/{id} without an operationId was normalized to "getpetsid".
C9_Witness ==
    /\ Normalized
    /\ \E k \in DOMAIN WithoutOperationId(document) :
          /\ WithoutOperationId(document)[k].path = PathPetById
          /\ WithoutOperationId(document)[k].method = GET
    /\ \E i \in DOMAIN parsedSpec.v.endpoints :
          /\ parsedSpec.v.endpoints[i].method = <<"G", "E", "T">>
          /\ parsedSpec.v.endpoints[i].operationId
                = <<"g", "e", "t", "p", "e", "t", "s", "i", "d">>

\* The document with every referenced request body removed.
WithoutReferencedBody(v) ==
    IF v.t = "operation" /\ v.requestBody.t = "ref"
    THEN [v EXCEPT !.requestBody = Undefined]
    ELSE v

WithoutReferencedBodiesIn(item) ==
    IF item.t # "object" THEN item
    ELSE Obj([i \in DOMAIN item.entries |->
                 [key |-> item.entries[i].key,
                  value |-> WithoutReferencedBody(item.entries[i].value)]])

WithoutReferencedBodies(doc) ==
    IF doc.paths.t # "object" THEN doc
    ELSE [doc EXCEPT !.paths =
             Obj([i \in DOMAIN doc.paths.entries |->
                     [key |-> doc.paths.entries[i].key,
                      value |-> WithoutReferencedBodiesIn(doc.paths.entries[i].value)]])]

ReferencedBodies(doc) ==
    SelectSeq(DeclaredOperations(doc), LAMBDA d : d.operation.requestBody.t = "ref")

\* C10: a referenced request body does not fail normalization: unless a
\* parameter or response is referenced the document is normalized, the
\* descriptor of an operation with a referenced request body has no
\* requestBody, and the result is that of the same document with those
\* request bodies not declared.
C10_ReferencedBodyIsAbsent ==
    (Loaded /\ pc \in {"normalized", "threw", "partitioned"}
       /\ ~HasUnsupportedRef(document))
    => /\ Normalized
       /\ LET referenced == ReferencedBodies(document)
          IN  \A k \in DOMAIN referenced :
                 /\ DescriptorsOf(referenced[k]) # {}
                 /\ \A i \in DescriptorsOf(referenced[k]) :
                       parsedSpec.v.endpoints[i].requestBody = Undefined
       /\ parsedSpec = parseOpenAPISpec(WithoutReferencedBodies(document))

\* A document with a referenced request body beside an inline one was
\* normalized.
C10_Witness ==
    /\ Normalized
    /\ ReferencedBodies(document) # <<>>
    /\ \E i \in DOMAIN parsedSpec.v.endpoints :
          parsedSpec.v.endpoints[i].requestBody.t = "requestBody"

(***************************************************************************)
(* Claims about the run, checked under Spec.                               *)
(***************************************************************************)
NothingWritten == dirs = {} /\ files = NoFiles

\* C1: if a parameter or a response of any operation of the document is a
\* reference, the run fails: normalization yields no IR at all, and the
\* target directory is not created and no file is written.
C1_ReferenceAbortsBeforeWriting ==
    (Loaded /\ HasUnsupportedRef(document))
    => pc = "failed" /\ ~Normalized /\ NothingWritten

\* A run failed on a document that declares a referenced parameter or
\* response beside an operation without any.
C1_Witness ==
    /\ pc = "failed"
    /\ Loaded /\ HasUnsupportedRef(document)
    /\ \E i \in DOMAIN DeclaredOperations(document) :
          LET op == DeclaredOperations(document)[i].operation
          IN  ~ReferencedParameter(op) /\ ~ReferencedResponse(op)

\* The document declares no path.
ZeroPaths(doc) == doc.paths.t # "object" \/ doc.paths.entries = <<>>

\* C2 (as claimed): for a document with zero paths the run fails, and up to
\* the failure no directory is created and no file is written.
C2_ZeroPathsFailBeforeWriting ==
    (Loaded /\ ZeroPaths(document))
    => pc # "done" /\ NothingWritten

\* C3: if the target directory exists when the run starts, the run fails,
\* the normalizer is never invoked and nothing is written.
C3_ExistingTargetFailsFirst ==
    (opts.appName \in disk.dirs)
    => /\ pc \in {"start", "failed"}
       /\ ~Loaded /\ parsedSpec = Undefined /\ log = <<>>
       /\ NothingWritten

\* A run with a valid app name and an existing spec file failed on the
\* existing target.
C3_Witness ==
    /\ pc = "failed"
    /\ opts.appName \in disk.dirs
    /\ validateAppName(opts.appName).t = "ok"
    /\ opts.spec /\ disk.specFile

\* The files of one kind a run wrote.
FilesOf(template) == {q \in DOMAIN files : files[q].template = template}

\* The distinct tag groups of the IR.
TagGroups ==
    {FirstTagOrDefault(parsedSpec.v.endpoints[i]) : i \in DOMAIN parsedSpec.v.endpoints}

\* C6 (as claimed): after a run that completes without error there is one
\* routes file and one handlers file per distinct tag group, no two groups
\* sharing a file.
C6_OneFilePairPerTag ==
    (pc = "done" /\ Normalized)
    => /\ Cardinality(FilesOf("routes")) = Cardinality(TagGroups)
       /\ Cardinality(FilesOf("handlers")) = Cardinality(TagGroups)
       /\ \A g \in TagGroups :
             /\ RoutesFile(g) \in DOMAIN files /\ files[RoutesFile(g)].tag = g
             /\ HandlersFile(g) \in DOMAIN files /\ files[HandlersFile(g)].tag = g

\* The events of the log of one operation on one template.
EventsOf(op, template) ==
    SelectSeq(log, LAMBDA e : e.op = op /\ e.template = template)

\* C7 (as claimed): every run that completes without error with an IR of at
\* least one endpoint has rendered the schema template exactly once and
\* written exactly one schema file.
C7_SchemaAlwaysWritten ==
    (pc = "done" /\ Normalized /\ parsedSpec.v.endpoints # <<>>)
    => /\ Len(EventsOf("render", "schema")) = 1
       /\ Len(EventsOf("write", "schema")) = 1
       /\ SchemaFile \in DOMAIN files

\* C7 (amended): a run that completes without error has rendered the schema
\* template exactly once and written exactly one schema file when the IR
\* holds at least one schema descriptor; when the IR holds none the template
\* is not rendered and the generator writes no schema file, whatever the
\* endpoints.
C7_SchemaWrittenIffSchemas ==
    (pc = "done" /\ Normalized)
    => IF parsedSpec.v.schemas # <<>>
       THEN /\ Len(EventsOf("render", "schema")) = 1
            /\ Len(EventsOf("write", "schema")) = 1
            /\ SchemaFile \in DOMAIN files
            /\ files[SchemaFile].operationIds = SchemaNames(parsedSpec.v.schemas)
       ELSE /\ Len(EventsOf("render", "schema")) = 0
            /\ Len(EventsOf("write", "schema")) = 0
            /\ SchemaFile \notin DOMAIN files

\* A run with endpoints and two schema descriptors completed.
C7_Witness ==
    /\ pc = "done" /\ Normalized
    /\ parsedSpec.v.endpoints # <<>>
    /\ Len(parsedSpec.v.schemas) = 2
    /\ SchemaFile \in DOMAIN files

\* The renders of the log, in order.
Renders == SelectSeq(log, LAMBDA e : e.op = "render")

\* C8 (as claimed): the renders of a run are the schema render, then for
\* each tag in turn the routes render immediately followed by the handlers
\* render of that tag, after the decode and the normalization.
C8_SchemaThenRoutesHandlersPerTag ==
    \A i \in DOMAIN Renders :
        /\ (i = 1) = (Renders[i].template = "schema")
        /\ (i > 1 /\ i % 2 = 0) => Renders[i].template = "routes"
        /\ (i > 1 /\ i % 2 = 1) =>
              /\ Renders[i].template = "handlers"
              /\ Renders[i].tag = Renders[i - 1].tag

\* The phase of the pipeline an event of the log belongs to.
Phase(e) ==
    CASE e.op = "decode"       -> 0
      [] e.op = "normalize"    -> 1
      [] e.op = "walk"         -> 2
      [] e.template = "routes" /\ e.op = "partition"  -> 3
      [] e.template = "routes" /\ e.op = "register"   -> 4
      [] e.template = "routes"   -> 5
      [] e.template = "handlers" /\ e.op = "partition" -> 6
      [] e.template = "handlers" /\ e.op = "register"  -> 7
      [] e.template = "handlers" -> 8
      [] e.template = "schema"   -> 9

\* The tags of the renders of one template, in order.
RenderedTags(template) ==
    LET rs == EventsOf("render", template) IN [i \in DOMAIN rs |-> rs[i].tag]

\* The tag groups in the order in which the endpoints first name them.
GroupOrder ==
    LET groups == getEndpointsByTag(parsedSpec.v.endpoints)
    IN  [i \in DOMAIN groups |-> groups[i].key]

\* C8 (amended): in every run the steps occur in this order: decode,
\* normalize, the walk of the template tree, partition, the routes render of
\* every tag in turn, partition again, the handlers render of every tag in
\* the same turn, then the schema render (if there is a schema), then done;
\* every routes render precedes every handlers render, and the schema render
\* follows them all.
C8_RoutesThenHandlersThenSchema ==
    /\ \A i \in 1..(Len(log) - 1) : Phase(log[i]) <= Phase(log[i + 1])
    /\ \A i \in DOMAIN log :
          /\ Phase(log[i]) \in {0, 1, 2, 3, 4, 6, 7} =>
                \A j \in DOMAIN log : Phase(log[j]) = Phase(log[i]) => j = i
          /\ log[i].op = "write" =>
                i > 1 /\ log[i - 1] = [log[i] EXCEPT !.op = "render"]
    /\ (pc \in {"handlers", "schema", "done"} /\ Normalized) =>
          RenderedTags("routes") = GroupOrder
    /\ (pc \in {"schema", "done"} /\ Normalized) =>
          RenderedTags("handlers") = GroupOrder
    /\ (pc = "done" /\ Normalized) =>
          /\ Len(EventsOf("decode", "")) = 1 /\ Len(EventsOf("normalize", "")) = 1
          /\ Len(EventsOf("walk", "")) = 1
          /\ Len(EventsOf("partition", "routes")) = 1
          /\ Len(EventsOf("partition", "handlers")) = 1

\* A run over two tag groups and a schema completed.
C8_Witness ==
    /\ pc = "done" /\ Normalized
    /\ Len(RenderedTags("routes")) = 2
    /\ Len(RenderedTags("handlers")) = 2
    /\ Len(EventsOf("render", "schema")) = 1

(***************************************************************************)
(* The validation-type helper.                                             *)
(***************************************************************************)
\* The endpoints of the group a render of routeTemplate was given.
GroupOf(tag) ==
    LET groups == getEndpointsByTag(parsedSpec.v.endpoints)
        i == CHOOSE k \in DOMAIN groups : groups[k].key = tag
    IN  groups[i].value

\* The calls of a sequence of calls that are made: those up to the first
\* that throws, that one included.
UpToFirstThrow(results) ==
    {j \in DOMAIN results : \A k \in 1..(j - 1) : results[k].t # "throw"}

\* The render of one endpoint by routeTemplate throws.
RouteEndpointThrows(endpoint) ==
    \/ RouteHelperThrows(<<endpoint>>)
    \/ ~(RouteEndpointInvokes(endpoint) \subseteq helpers)

\* The schemas zodType was called with by the render of one group: the
\* endpoints are rendered in order until one throws, the parameters of an
\* endpoint until zodType throws.
ZodTypeCallsOf(endpoints) ==
    UNION {{ZodTypeArguments(endpoints[i])[j] :
                j \in UpToFirstThrow(RouteValidators(endpoints)[i])} :
           i \in {n \in DOMAIN endpoints :
                    \A k \in 1..(n - 1) : ~RouteEndpointThrows(endpoints[k])}}

\* The schemas zodType was called with in the run so far.
ZodTypeCalls ==
    UNION {ZodTypeCallsOf(GroupOf(log[i].tag)) :
           i \in {k \in DOMAIN log : log[k].op = "render" /\ log[k].template = "routes"}}

\* C11: zodType called with a schema of type array returns, without raising
\* an error, the array-of validator wrapping what zodType returns for the
\* schema's items.
C11_ArrayValidatorWrapsItems ==
    \A schema \in ZodTypeCalls :
        schema.type = "array"
        => /\ zodType(schema).t = "ok"
           /\ zodType(schema.items).t = "ok"
           /\ zodType(schema).v = <<"z.array(">> \o zodType(schema.items).v \o <<")">>

\* zodType is called with the schema of a path or query parameter only: a
\* run whose only array schema is that of a header parameter writes the
\* routes file, with the validator of the path parameter.
ScalarValidatorsWritten ==
    \A q \in FilesOf("routes") :
        \A i \in DOMAIN files[q].validators :
            \A j \in DOMAIN files[q].validators[i] :
                files[q].validators[i][j] \in
                    {Ok(<<"z.string()">>), Ok(<<"z.unknown()">>)}

(***************************************************************************)
(* The registry of helpers at each render.                                 *)
(***************************************************************************)
\* The helpers a generator registers.
HelpersOf(template) ==
    CASE template = "routes"   -> RouteHelpers
      [] template = "handlers" -> HandlerHelpers
      [] template = "schema"   -> SchemaHelpers

\* The registry at the i-th operation of the run: the process starts with
\* no helper registered.
RegisteredBefore(i) ==
    UNION {HelpersOf(log[k].template) :
               k \in {n \in 1..(i - 1) : log[n].op = "register"}}

\* The helpers routeTemplate invokes for one endpoint up to the point where
\* its render ends: zodType raising an error ends it before the request
\* body and the responses.
RouteEndpointInvoked(endpoint) ==
    IF RouteHelperThrows(<<endpoint>>)
    THEN {"camelCase", "lowercase", "zodType"}
    ELSE RouteEndpointInvokes(endpoint)

\* The helpers routeTemplate invokes for a group: the endpoints are rendered
\* in order until one throws.
RouteTemplateInvoked(endpoints) ==
    {"capitalize"}
      \cup UNION {RouteEndpointInvoked(endpoints[i]) :
                     i \in {n \in DOMAIN endpoints :
                              \A k \in 1..(n - 1) : ~RouteEndpointThrows(endpoints[k])}}

\* The helpers invoked by the render that is the i-th operation of the run.
InvokedAt(i) ==
    CASE log[i].template = "routes"   -> RouteTemplateInvoked(GroupOf(log[i].tag))
      [] log[i].template = "handlers" -> HandlerTemplateInvokes(GroupOf(log[i].tag))
      [] log[i].template = "schema"   -> SchemaTemplateInvokes(parsedSpec.v.schemas)

RenderAt(i) == log[i].op = "render"

RegisterAt(i) == log[i].op = "register"

\* C12: at every render of a run, every helper the rendered template invokes
\* for its endpoints or schemas is already in the registry, so that no render
\* fails on a missing helper.
C12_InvokedHelpersRegistered ==
    \A i \in DOMAIN log : RenderAt(i) => InvokedAt(i) \subseteq RegisteredBefore(i)

\* C13: the registry is populated once, before the first render: no helper
\* is registered after a template was rendered.
C13_NoRegistrationAfterRender ==
    LET registers == {i \in DOMAIN log : RegisterAt(i)}
        renders   == {i \in DOMAIN log : RenderAt(i)}
    IN  \A i \in renders, j \in registers : j < i

\* C13, amended: each generator registers its helpers once, before the
\* first render of its own template and after the renders of the generators
\* before it; between two renders of one template nothing is registered, and
\* the registry holds exactly what the generators that ran have registered.
C13_RegistersOncePerGenerator ==
    LET registers == {i \in DOMAIN log : RegisterAt(i)}
        renders   == {i \in DOMAIN log : RenderAt(i)}
    IN  /\ \A i, j \in registers : i # j => log[i].template # log[j].template
        /\ \A j \in renders :
              \E i \in registers : i < j /\ log[i].template = log[j].template
        /\ \A i \in renders, j \in registers :
              i < j => log[i].template # log[j].template
        /\ \A i \in renders, j \in registers :
              Phase(log[i]) < Phase(log[j]) => i < j
        /\ helpers = RegisteredBefore(Len(log) + 1)

\* The registrations and renders of the run, in order.
RegistryTrace ==
    LET marks == SelectSeq(log, LAMBDA e : e.op \in {"register", "render"})
    IN  [i \in DOMAIN marks |-> <<marks[i].op, marks[i].template>>]

\* A completed run over two tags and a schema: the helpers of the routes
\* are registered and two routes files rendered, then the helper of the
\* handlers is registered and two handlers files rendered, then the helpers
\* of the schema are registered and the schema rendered.
C13_Witness ==
    /\ pc = "done"
    /\ RegistryTrace = << <<"register", "routes">>, <<"render", "routes">>,
                          <<"render", "routes">>, <<"register", "handlers">>,
                          <<"render", "handlers">>, <<"render", "handlers">>,
                          <<"register", "schema">>, <<"render", "schema">> >>

====
